---- MODULE Spec2Model ----
(***************************************************************************)
(* GoTo API gateway: the credential / session lifecycle core of app.py.   *)
(*                                                                         *)
(* The Credential Store (provider_manager) and the Session Manager         *)
(* (session_manager) are keyed stores behind app.py; every call of one of  *)
(* their methods is one atomic step.  get_goto_token / refresh_goto_token  *)
(* run as request processes whose steps are the store calls and the        *)
(* upstream token request, so that concurrent requests interleave there.   *)
(***************************************************************************)
EXTENDS Integers, FiniteSets, Sequences, TLC

\* ---------------------------------------------------------------- bounds
MaxNow == 450
MaxGateNow == 300
MaxIssued == 2
MaxSessions == 2
MaxWrites == 1

\* ------------------------------------------------------ program constants
SESSION_TTL == 300
DEFAULT_EXPIRES_IN == 3600
SEED_EXPIRES_IN == 3600

\* ------------------------------------------------------------- universes
Tenants == {"acme", "globex"}
Apps == {"app1", "app2"}
Procs == {"p1", "p2"}
\* the clock advances in steps of half a session lifetime
TickStep == SESSION_TTL \div 2
\* the host's local-time offset from UTC, in seconds (datetime.now() is local)
HostOffsets == {0 - 3600, 0}
\* the 200 responses of the token endpoint: with a new refresh_token and an
\* expires_in, or with neither (expires_in 0 stands for "omitted")
Rotating == [rotate |-> TRUE, expires_in |-> TickStep]
Bare == [rotate |-> FALSE, expires_in |-> 0]
ResponseShapes == {Rotating, Bare}

VARIABLES
    now,        \* UTC clock, seconds
    tz,         \* the host's UTC offset
    providers,  \* Credential Store: tenant -> 'goto' ProviderCredential
    systems,    \* Credential Store: <<tenant, app>> -> SystemCredential
    wclock,     \* the store's write stamp (the reading of updated_at)
    issued,     \* number of token responses the provider has issued
    pc,         \* request process -> position
    loc,        \* request process -> locals of the running call
    ret,        \* request process -> outcome of its last finished call
    sessions,   \* Session store: session id -> record
    nsessions,  \* number of session ids handed out
    created,    \* history: session id -> what create_session was passed
    deleted,    \* history: session ids a disconnect removed
    auth_manager, \* auth_manager.py: token type -> the manager's slot
    dotenv,     \* the .env file: token type -> the tokens saved in it
    valid_token, \* outcome of the last GoToAuthManager.get_valid_token
    reply       \* route of the tenant provider endpoints -> its last response

vars == <<now, tz, providers, systems, wclock, issued, pc, loc, ret,
          sessions, nsessions, created, deleted,
          auth_manager, dotenv, valid_token, reply>>

\* what belongs to the gateway's own process: the host's offset and the
\* global GoToAuthManager with its file
process == <<tz, auth_manager, dotenv, valid_token, reply>>
tokvars == <<providers, wclock, issued, pc, loc, ret>>
sessvars == <<sessions, nsessions, created, deleted>>

\* ------------------------------------------------------------ data model
NoProvider == [absent |-> TRUE]
NoSystem == [absent |-> TRUE]
NoSession == [absent |-> TRUE]
NoToken == 0

\* token_expiry strings: 'YYYY-..Z' (fmt "Z"), without offset (fmt "naive"),
\* not ISO-8601 (fmt "bad"), empty or missing (fmt "none"); wall is the
\* wall-clock reading the string spells, in seconds.
Expiry(fmt, wall) == [fmt |-> fmt, wall |-> wall]
NoExpiry == Expiry("none", 0)

ProviderConfig(t, status, at, rt, exp, stamp) ==
    [status |-> status, auth_type |-> "oauth",
     client_id |-> <<"client_id", t>>, client_secret |-> <<"client_secret", t>>,
     account_key |-> <<"account_key", t>>, api_base_url |-> "voice-admin/v1",
     features_enabled |-> {"call-queues", "auto-attendants", "extensions"},
     access_token |-> at, refresh_token |-> rt, token_expiry |-> exp,
     created_at |-> 0, updated_at |-> stamp]

SystemConfig(t, a) ==
    [client_id |-> <<"sys_client_id", t, a>>,
     client_secret |-> <<"sys_client_secret", t, a>>]

\* ----------------------------------------------------- Credential Store
get_provider(t) == providers[t]

get_system_credentials(t, a) == systems[<<t, a>>]

\* partial update: the three token fields and updated_at, nothing else;
\* no record is created when none exists
update_tokens(t, at, rt, exp) ==
    IF providers[t] = NoProvider
    THEN providers
    ELSE [providers EXCEPT ![t] = [@ EXCEPT !.access_token = at,
                                            !.refresh_token = rt,
                                            !.token_expiry = exp,
                                            !.updated_at = wclock + 1]]

\* ------------------------------------------------------------ app.py
\* datetime.fromisoformat(token_expiry.replace('Z', '+00:00'))
fromisoformat(e) ==
    CASE e.fmt = "Z" -> [ok |-> TRUE, aware |-> TRUE, t |-> e.wall]
      [] e.fmt = "naive" -> [ok |-> TRUE, aware |-> FALSE, t |-> e.wall]
      [] OTHER -> [ok |-> FALSE, aware |-> FALSE, t |-> 0]

\* datetime.now(expiry_dt.tzinfo): UTC now for an aware expiry, the host's
\* local wall clock for a naive one
datetime_now(aware) == IF aware THEN now ELSE now + tz

\* (datetime.now() + timedelta(seconds=expires_in)).isoformat() + 'Z'
expires_at_of(expires_in) == Expiry("Z", (now + tz) + expires_in)

\* a credential lookup that answers a missing record with an empty one
get_provider_credentials_blank(t) ==
    IF get_provider(t) = NoProvider
    THEN [status |-> 200,
          data |-> ProviderConfig(t, "active", NoToken, NoToken, NoExpiry, 0)]
    ELSE IF get_provider(t).status # "active"
    THEN [status |-> 403, data |-> NoProvider]
    ELSE [status |-> 200, data |-> get_provider(t)]

\* a credential lookup without the status gate
get_provider_credentials_any(t) ==
    IF get_provider(t) = NoProvider THEN [status |-> 404, data |-> NoProvider]
    ELSE [status |-> 200, data |-> get_provider(t)]

\* app.py 73-81
get_provider_credentials(t) ==
    LET provider_data == get_provider(t) IN
    IF provider_data = NoProvider THEN [status |-> 404, data |-> NoProvider]
    ELSE IF provider_data.status # "active" THEN [status |-> 403, data |-> NoProvider]
    ELSE [status |-> 200, data |-> provider_data]

\* an expiry check that refreshes when it cannot read the expiry
expiry_check_strict(token_expiry) ==
    IF ~fromisoformat(token_expiry).ok THEN "refresh"
    ELSE IF datetime_now(fromisoformat(token_expiry).aware)
              >= fromisoformat(token_expiry).t THEN "refresh"
    ELSE "valid"

\* an expiry check that refreshes whenever the expiry parses
expiry_check_eager(token_expiry) ==
    IF fromisoformat(token_expiry).ok THEN "refresh" ELSE "skip"

\* the outcome of the expiry check of get_goto_token, lines 92-97:
\* "valid" (return the token), "refresh" (now >= expiry), "skip" (expiry
\* missing, or the parse raised and the except clause logged a warning)
expiry_check(token_expiry) ==
    IF token_expiry.fmt = "none" THEN "skip"
    ELSE LET expiry_dt == fromisoformat(token_expiry) IN
         IF ~expiry_dt.ok THEN "skip"
         ELSE IF datetime_now(expiry_dt.aware) >= expiry_dt.t THEN "refresh"
         ELSE "valid"

Idle == [kind |-> "none"]
NoResponse == [absent |-> TRUE]
NoError == ""

\* how a refresh failed, what the upstream side produced (the response body
\* or the exception's message) and the text refresh_goto_token puts under
\* 'error': the provider is missing (line 115), the token endpoint answered
\* non-200 (line 143, response.text), or something raised (line 146, str(e))
Missing == [cause |-> "missing", upstream |-> NoError, error |-> "Provider not found"]
\* a rejection reported with a fixed text
Rejected_fixed(body) ==
    [cause |-> "rejected", upstream |-> body, error |-> "Token refresh failed"]
Rejected(body) == [cause |-> "rejected", upstream |-> body, error |-> body]
Raised(text) == [cause |-> "raised", upstream |-> text, error |-> text]
\* the token endpoint accepts the connection and never answers
Silent == [cause |-> "silent", upstream |-> NoError, error |-> NoError]
\* what refresh_goto_token returns when it fails
RefreshResult(error) == [success |-> FALSE, error |-> error]

\* the locals of a running call: the tenant, the token and the record (by
\* its updated_at) that the first read saw, and, as history, whether the
\* call directly follows a finished call of this process that saw the same
\* record (again) and which processes were inside a call for the tenant
\* when it began (conc)
\* lines 116-127: the refresh grant built from the record just read, the
\* refresh token in the body and the client's id and secret as Basic auth
NoRequest == [absent |-> TRUE]
token_request(provider_data) ==
    [grant_type |-> "refresh_token",
     refresh_token |-> provider_data.refresh_token,
     client_id |-> provider_data.client_id,
     client_secret |-> provider_data.client_secret]

Locals(kind, t, token, seen, again, conc) ==
    [kind |-> kind, tenant |-> t, token |-> token, seen |-> seen,
     again |-> again, conc |-> conc,
     provider_data |-> NoProvider, request |-> NoRequest,
     response |-> NoResponse, stamp |-> 0]

\* the outcome of a call: what it returned (status 200 and a token, or the
\* status of the HTTPException it raised), the refresh calls and token
\* requests it made, how the refresh ended and the access token of the
\* response it received
Result(l, status, token, refreshes, posts, refresh, response_token) ==
    [kind |-> l.kind, tenant |-> l.tenant, seen |-> l.seen,
     again |-> l.again /\ status = 200 /\ refreshes = 0,
     conc |-> IF refreshes = 0 THEN {} ELSE l.conc,
     status |-> status, token |-> token,
     refreshes |-> refreshes, posts |-> posts, refresh |-> refresh,
     response_token |-> response_token,
     cause |-> "none", upstream |-> NoError, error |-> NoError]
NoResult == Result(Locals("none", "", NoToken, 0, FALSE, {}),
                   0, NoToken, 0, 0, "none", NoToken)

Finish(p, r) ==
    /\ pc' = [pc EXCEPT ![p] = "done"]
    /\ ret' = [ret EXCEPT ![p] = r]
    /\ loc' = [loc EXCEPT ![p] = Idle]

Free(p) == pc[p] \in {"idle", "done"}

Seen(provider_data) ==
    IF provider_data = NoProvider THEN 0 - 1 ELSE provider_data.updated_at

Begin(p, kind, t, token) ==
    Locals(kind, t, token, Seen(get_provider(t)),
           /\ pc[p] = "done"
           /\ ret[p].kind = kind
           /\ ret[p].tenant = t
           /\ ret[p].seen = Seen(get_provider(t)),
           {q \in Procs \ {p} : ~Free(q) /\ loc[q].tenant = t})

\* a token gate that checks the expiry before it looks at the token
get_goto_token_unchecked(p, t) ==
    /\ Free(p)
    /\ LET r == get_provider_credentials(t)
           l == Begin(p, "gate", t,
                      IF r.status = 200 THEN r.data.access_token ELSE NoToken)
       IN
       IF r.status # 200
       THEN Finish(p, Result(l, r.status, NoToken, 0, 0, "none", NoToken))
       ELSE IF expiry_check(r.data.token_expiry) = "refresh"
       THEN /\ pc' = [pc EXCEPT ![p] = "refresh_read"]
            /\ loc' = [loc EXCEPT ![p] = l]
            /\ ret' = ret
       ELSE IF r.data.access_token = NoToken
       THEN Finish(p, Result(l, 401, NoToken, 0, 0, "none", NoToken))
       ELSE Finish(p, Result(l, 200, r.data.access_token, 0, 0, "none", NoToken))
    /\ UNCHANGED <<now, process, providers, systems, wclock, issued>>
    /\ UNCHANGED sessvars

\* a token gate that starts no refresh while another call is refreshing the
\* same tenant's credential, and serves the token it read instead
get_goto_token_single_flight(p, t) ==
    /\ Free(p)
    /\ LET r == get_provider_credentials(t)
           provider_data == r.data
           l == Begin(p, "gate", t,
                      IF r.status = 200 THEN provider_data.access_token ELSE NoToken)
       IN
       IF r.status # 200
       THEN Finish(p, Result(l, r.status, NoToken, 0, 0, "none", NoToken))
       ELSE IF provider_data.access_token = NoToken
       THEN Finish(p, Result(l, 401, NoToken, 0, 0, "none", NoToken))
       ELSE IF expiry_check(provider_data.token_expiry) = "refresh" /\ l.conc = {}
       THEN /\ pc' = [pc EXCEPT ![p] = "refresh_read"]
            /\ loc' = [loc EXCEPT ![p] = l]
            /\ ret' = ret
       ELSE Finish(p, Result(l, 200, provider_data.access_token,
                             0, 0, "none", NoToken))
    /\ UNCHANGED <<now, process, providers, systems, wclock, issued>>
    /\ UNCHANGED sessvars

\* a token gate that keeps the token of its last successful call in the
\* process and serves it again
get_goto_token_cached(p, t) ==
    /\ Free(p)
    /\ LET r == get_provider_credentials(t)
           provider_data == r.data
           cached == /\ pc[p] = "done"
                     /\ ret[p].kind = "gate"
                     /\ ret[p].tenant = t
                     /\ ret[p].status = 200
           l == Begin(p, "gate", t,
                      IF r.status = 200 THEN provider_data.access_token ELSE NoToken)
       IN
       IF cached
       THEN Finish(p, Result(l, 200, ret[p].token, 0, 0, "none", NoToken))
       ELSE IF r.status # 200
       THEN Finish(p, Result(l, r.status, NoToken, 0, 0, "none", NoToken))
       ELSE IF provider_data.access_token = NoToken
       THEN Finish(p, Result(l, 401, NoToken, 0, 0, "none", NoToken))
       ELSE IF expiry_check(provider_data.token_expiry) = "refresh"
       THEN /\ pc' = [pc EXCEPT ![p] = "refresh_read"]
            /\ loc' = [loc EXCEPT ![p] = l]
            /\ ret' = ret
       ELSE Finish(p, Result(l, 200, provider_data.access_token,
                             0, 0, "none", NoToken))
    /\ UNCHANGED <<now, process, providers, systems, wclock, issued>>
    /\ UNCHANGED sessvars

\* get_goto_token, lines 85-99: the first read, and everything up to the
\* call of refresh_goto_token
get_goto_token(p, t) ==
    /\ Free(p)
    /\ LET r == get_provider_credentials(t)
           provider_data == r.data
           l == Begin(p, "gate", t,
                      IF r.status = 200 THEN provider_data.access_token ELSE NoToken)
       IN
       IF r.status # 200
       THEN Finish(p, Result(l, r.status, NoToken, 0, 0, "none", NoToken))
       ELSE IF provider_data.access_token = NoToken
       THEN Finish(p, Result(l, 401, NoToken, 0, 0, "none", NoToken))
       ELSE IF expiry_check(provider_data.token_expiry) = "refresh"
       THEN /\ pc' = [pc EXCEPT ![p] = "refresh_read"]
            /\ loc' = [loc EXCEPT ![p] = l]
            /\ ret' = ret
       ELSE Finish(p, Result(l, 200, provider_data.access_token,
                             0, 0, "none", NoToken))
    /\ UNCHANGED <<now, process, providers, systems, wclock, issued>>
    /\ UNCHANGED sessvars

\* POST /tenants/{tenant_id}/providers/goto/refresh-token, lines 1230-1235:
\* refresh_goto_token called directly
refresh_provider_token(p, t) ==
    /\ Free(p)
    /\ pc' = [pc EXCEPT ![p] = "refresh_read"]
    /\ loc' = [loc EXCEPT ![p] = Begin(p, "refresh", t, NoToken)]
    /\ UNCHANGED <<now, process, providers, systems, wclock, issued, ret>>
    /\ UNCHANGED sessvars

\* what the caller does with {"success": False}.  In get_goto_token the
\* HTTPException(401) of line 104 is raised inside the try block of lines
\* 93-104 and caught by "except Exception" (line 105), so line 108 returns
\* the token read before the refresh; refresh_provider_token answers 500
refresh_failed(p, posts, failure) ==
    [(IF loc[p].kind = "gate"
      THEN Result(loc[p], 200, loc[p].token, 1, posts, "failed", NoToken)
      ELSE Result(loc[p], 500, NoToken, 1, posts, "failed", NoToken))
     EXCEPT !.cause = failure.cause, !.upstream = failure.upstream,
            !.error = failure.error]

\* a refresh that creates an empty record for a tenant that has none
refresh_goto_token_read_create(p) ==
    /\ pc[p] = "refresh_read"
    /\ IF get_provider(loc[p].tenant) = NoProvider
       THEN /\ providers' = [providers EXCEPT ![loc[p].tenant] =
                   ProviderConfig(loc[p].tenant, "active", NoToken, NoToken,
                                  NoExpiry, 0)]
            /\ Finish(p, refresh_failed(p, 0, Missing))
       ELSE /\ pc' = [pc EXCEPT ![p] = "post"]
            /\ loc' = [loc EXCEPT ![p].provider_data = get_provider(loc[p].tenant)]
            /\ UNCHANGED <<ret, providers>>
    /\ UNCHANGED <<now, process, systems, wclock, issued>>
    /\ UNCHANGED sessvars

\* a refresh that authenticates every tenant's request with one client,
\* the first tenant's
refresh_goto_token_read_one_client(p) ==
    /\ pc[p] = "refresh_read"
    /\ LET provider_data == get_provider(loc[p].tenant)
           shared == get_provider("acme")
       IN
       IF provider_data = NoProvider
       THEN Finish(p, refresh_failed(p, 0, Missing))
       ELSE /\ pc' = [pc EXCEPT ![p] = "post"]
            /\ loc' = [loc EXCEPT ![p].provider_data = provider_data,
                                  ![p].request =
                                      [token_request(provider_data) EXCEPT
                                          !.client_id = shared.client_id,
                                          !.client_secret = shared.client_secret]]
            /\ ret' = ret
    /\ UNCHANGED <<now, process, providers, systems, wclock, issued>>
    /\ UNCHANGED sessvars

\* refresh_goto_token, lines 113-127: read the record, build the request
\* from its refresh_token, client_id and client_secret
refresh_goto_token_read(p) ==
    /\ pc[p] = "refresh_read"
    /\ LET provider_data == get_provider(loc[p].tenant) IN
       IF provider_data = NoProvider
       THEN Finish(p, refresh_failed(p, 0, Missing))
       ELSE /\ pc' = [pc EXCEPT ![p] = "post"]
            /\ loc' = [loc EXCEPT ![p].provider_data = provider_data,
                                  ![p].request = token_request(provider_data)]
            /\ ret' = ret
    /\ UNCHANGED <<now, process, providers, systems, wclock, issued>>
    /\ UNCHANGED sessvars

\* a refresh that starts over when the token request fails
refresh_goto_token_post_retry(p, Shapes, Failures) ==
    /\ pc[p] = "post"
    /\ pc' = [pc EXCEPT ![p] = "refresh_read"]
    /\ UNCHANGED <<now, process, providers, systems, wclock, issued, loc, ret>>
    /\ UNCHANGED sessvars

\* lines 129-146: requests.post; the provider answers 200 with a new access
\* token (with or without a refresh_token and an expires_in), answers
\* non-200 with a body, the transport raises, or the provider stays silent:
\* the call of line 129 passes no timeout, so the process waits ("blocked")
refresh_goto_token_post(p, Shapes, Failures) ==
    /\ pc[p] = "post"
    /\ \/ /\ issued < MaxIssued
          /\ \E shape \in Shapes :
               /\ issued' = issued + 1
               /\ pc' = [pc EXCEPT ![p] = "store"]
               /\ loc' = [loc EXCEPT ![p].response =
                            [access_token |-> issued + 2,
                             refresh_token |-> IF shape.rotate THEN issued + 2 ELSE NoToken,
                             expires_in |-> shape.expires_in]]
               /\ ret' = ret
       \/ /\ \E failure \in Failures :
               IF failure.cause = "silent"
               THEN /\ pc' = [pc EXCEPT ![p] = "blocked"]
                    /\ UNCHANGED <<loc, ret>>
               ELSE Finish(p, refresh_failed(p, 1, failure))
          /\ issued' = issued
    /\ UNCHANGED <<now, process, providers, systems, wclock>>
    /\ UNCHANGED sessvars

\* a refresh that stores the new tokens and leaves the expiry as it was
refresh_goto_token_store_tokens_only(p) ==
    /\ pc[p] = "store"
    /\ providers' = update_tokens(loc[p].tenant, loc[p].response.access_token,
                                  loc[p].provider_data.refresh_token,
                                  get_provider(loc[p].tenant).token_expiry)
    /\ wclock' = wclock + 1
    /\ Finish(p, Result(loc[p], 200, NoToken, 1, 1, "ok",
                        loc[p].response.access_token))
    /\ UNCHANGED <<now, process, systems, issued>>
    /\ UNCHANGED sessvars

\* a refresh that writes a whole new record instead of updating the tokens
refresh_goto_token_store_put(p) ==
    /\ pc[p] = "store"
    /\ providers' = [providers EXCEPT ![loc[p].tenant] =
                       [ProviderConfig(loc[p].tenant, "active",
                                       loc[p].response.access_token,
                                       loc[p].provider_data.refresh_token,
                                       expires_at_of(DEFAULT_EXPIRES_IN), wclock + 1)
                        EXCEPT !.created_at = wclock + 1]]
    /\ wclock' = wclock + 1
    /\ Finish(p, Result(loc[p], 200, NoToken, 1, 1, "ok",
                        loc[p].response.access_token))
    /\ UNCHANGED <<now, process, systems, issued>>
    /\ UNCHANGED sessvars

\* a refresh that stores the response's refresh_token even when it has none
refresh_goto_token_store_blank(p) ==
    /\ pc[p] = "store"
    /\ providers' = update_tokens(loc[p].tenant, loc[p].response.access_token,
                                  loc[p].response.refresh_token,
                                  expires_at_of(DEFAULT_EXPIRES_IN))
    /\ wclock' = wclock + 1
    /\ Finish(p, Result(loc[p], 200, NoToken, 1, 1, "ok",
                        loc[p].response.access_token))
    /\ UNCHANGED <<now, process, systems, issued>>
    /\ UNCHANGED sessvars

\* a refresh that also pushes the new tokens into the tenant's sessions
refresh_goto_token_store_push(p) ==
    /\ pc[p] = "store"
    /\ providers' = update_tokens(loc[p].tenant, loc[p].response.access_token,
                                  loc[p].provider_data.refresh_token,
                                  expires_at_of(DEFAULT_EXPIRES_IN))
    /\ wclock' = wclock + 1
    /\ sessions' = [sid \in DOMAIN sessions |->
                      IF sessions[sid] # NoSession
                         /\ sessions[sid].tenant = loc[p].tenant
                      THEN [sessions[sid] EXCEPT !.provider_tokens.access_token =
                                                    loc[p].response.access_token]
                      ELSE sessions[sid]]
    /\ Finish(p, Result(loc[p], 200, NoToken, 1, 1, "ok",
                        loc[p].response.access_token))
    /\ UNCHANGED <<now, process, systems, issued, nsessions, created, deleted>>

\* lines 131-141: the 200 branch, pm.update_tokens
refresh_goto_token_store(p) ==
    /\ pc[p] = "store"
    /\ LET token_response == loc[p].response
           access_token == token_response.access_token
           new_refresh_token ==
               IF token_response.refresh_token # NoToken
               THEN token_response.refresh_token
               ELSE loc[p].provider_data.refresh_token
           expires_in ==
               IF token_response.expires_in # 0
               THEN token_response.expires_in ELSE DEFAULT_EXPIRES_IN
       IN
       /\ providers' = update_tokens(loc[p].tenant, access_token,
                                     new_refresh_token, expires_at_of(expires_in))
       /\ wclock' = wclock + 1
       /\ IF loc[p].kind = "gate"
          THEN /\ pc' = [pc EXCEPT ![p] = "reread"]
               /\ loc' = [loc EXCEPT ![p].stamp = wclock + 1]
               /\ ret' = ret
          ELSE Finish(p, Result(loc[p], 200, NoToken, 1, 1, "ok", access_token))
    /\ UNCHANGED <<now, process, systems, issued>>
    /\ UNCHANGED sessvars

\* get_goto_token without the second read: the token of the first read
get_goto_token_stale(p) ==
    /\ pc[p] = "reread"
    /\ Finish(p, Result(loc[p], 200, loc[p].token,
                        1, 1, "ok", loc[p].response.access_token))
    /\ UNCHANGED <<now, process, providers, systems, wclock, issued>>
    /\ UNCHANGED sessvars

\* get_goto_token, lines 100-108: the refresh succeeded, read again.  An
\* HTTPException of the second get_provider_credentials is caught by line
\* 105 as well, and the token read before the refresh is returned
get_goto_token_reread(p) ==
    /\ pc[p] = "reread"
    /\ LET r == get_provider_credentials(loc[p].tenant) IN
       Finish(p, Result(loc[p], 200,
                        IF r.status = 200 THEN r.data.access_token ELSE loc[p].token,
                        1, 1, "ok", loc[p].response.access_token))
    /\ UNCHANGED <<now, process, providers, systems, wclock, issued>>
    /\ UNCHANGED sessvars

\* ------------------------------------------------- tools/seed_redis.py
\* seed_system_credentials: pm.add_system_credentials with the test client
seed_system_credentials(sys, t, a) == [sys EXCEPT ![<<t, a>>] = SystemConfig(t, a)]

\* seed_provider_tokens with the fake tokens: update_tokens on an existing
\* record, add_provider otherwise; expiry is utcnow() + 1 h, suffixed 'Z'
seed_provider_tokens(existing, t) ==
    LET expires_at == Expiry("Z", now + SEED_EXPIRES_IN) IN
    IF existing
    THEN update_tokens(t, 1, 1, expires_at)
    ELSE [providers EXCEPT ![t] =
             ProviderConfig(t, "active", 1, 1, expires_at, wclock + 1)]

\* main(): with --clean, delete_system_credentials and delete_provider
\* first; then seed the system credentials and the provider tokens
seed_redis_main(t, a, clean) ==
    /\ wclock < MaxWrites
    /\ systems' = seed_system_credentials(systems, t, a)
    /\ providers' = seed_provider_tokens(~clean /\ get_provider(t) # NoProvider, t)
    /\ wclock' = wclock + 1
    /\ UNCHANGED <<now, process, issued, pc, loc, ret>>
    /\ UNCHANGED sessvars

\* -------------------------------------- other writers of the record
\* main() with --clean, line 183: pm.delete_provider, a store call of its
\* own, made before the tool seeds again
delete_provider(t) ==
    /\ providers[t] # NoProvider
    /\ providers' = [providers EXCEPT ![t] = NoProvider]
    /\ UNCHANGED <<now, process, systems, wclock, issued, pc, loc, ret>>
    /\ UNCHANGED sessvars

\* the Credential Store's put with another status: an operator takes the
\* credential out of use, its tokens stay in the record
put_status(t, status) ==
    /\ providers[t] # NoProvider
    /\ providers[t].status # status
    /\ providers' = [providers EXCEPT ![t].status = status]
    /\ UNCHANGED <<now, process, systems, wclock, issued, pc, loc, ret>>
    /\ UNCHANGED sessvars

\* ------------------------------------------------------ Session Manager
SessionIds == 0..MaxSessions

Stored(sid) == sid \in DOMAIN sessions /\ sessions[sid] # NoSession

\* a create_session that derives the id from the tenant
create_session_keyed(tenant, app, system_creds, provider_tokens) ==
    [session_id |-> IF tenant = "acme" THEN 1 ELSE 2, tenant |-> tenant,
     app |-> app, system_credentials |-> system_creds,
     provider_tokens |-> provider_tokens,
     created_at |-> now, expires_at |-> now + SESSION_TTL]

\* a create_session whose sessions live half as long
create_session_short(tenant, app, system_creds, provider_tokens) ==
    [session_id |-> nsessions + 1, tenant |-> tenant, app |-> app,
     system_credentials |-> system_creds, provider_tokens |-> provider_tokens,
     created_at |-> now, expires_at |-> now + TickStep]

\* create_session: a fresh id, created_at = now, expires_at = now + 300 s,
\* the two snapshots stored by value
create_session(tenant, app, system_creds, provider_tokens) ==
    [session_id |-> nsessions + 1, tenant |-> tenant, app |-> app,
     system_credentials |-> system_creds, provider_tokens |-> provider_tokens,
     created_at |-> now, expires_at |-> now + SESSION_TTL]

\* a get_session that leaves expiry to the store
get_session_unpoliced(sid) ==
    IF sid \in DOMAIN sessions /\ sessions[sid] # NoSession
    THEN sessions[sid] ELSE NoSession

\* get_session: the stored record, absent once expires_at is reached even
\* when the store still holds the key
get_session(sid) ==
    IF ~Stored(sid) THEN NoSession
    ELSE IF now >= sessions[sid].expires_at THEN NoSession
    ELSE sessions[sid]

\* delete_session: whether a record existed
delete_session(sid) == Stored(sid)

\* the store's own per-key expiry: it may act at any time after the TTL
store_expire(sid) ==
    /\ Stored(sid)
    /\ now >= sessions[sid].expires_at
    /\ sessions' = [sessions EXCEPT ![sid] = NoSession]
    /\ UNCHANGED <<now, process, systems, nsessions, created, deleted>>
    /\ UNCHANGED tokvars

\* ------------------------------------------------- app.py, /auth routes
\* what a route answers: the HTTP status and the response body (the detail
\* of an HTTPException is left out)
Answer(status, data) == [status |-> status, data |-> data]

\* a snapshot that leaves out an access token whose expiry has passed
provider_tokens_of_unexpired(provider_data) ==
    [access_token |-> IF expiry_check(provider_data.token_expiry) = "refresh"
                      THEN NoToken ELSE provider_data.access_token,
     refresh_token |-> provider_data.refresh_token,
     token_expiry |-> provider_data.token_expiry,
     account_key |-> provider_data.account_key,
     api_base_url |-> provider_data.api_base_url]

\* lines 528-534
provider_tokens_of(provider_data) ==
    [access_token |-> provider_data.access_token,
     refresh_token |-> provider_data.refresh_token,
     token_expiry |-> provider_data.token_expiry,
     account_key |-> provider_data.account_key,
     api_base_url |-> provider_data.api_base_url]

\* a connect that does not check the system credentials
auth_connect_session_unchecked(tenant, app) ==
    IF get_provider(tenant) = NoProvider THEN NoSession
    ELSE create_session(tenant, app, get_system_credentials(tenant, app),
                        provider_tokens_of(get_provider(tenant)))

\* POST /auth/connect, lines 511-541: the session it creates, NoSession
\* when it raises 404
auth_connect_session(tenant, app) ==
    LET system_creds == get_system_credentials(tenant, app)
        provider_data == get_provider(tenant)
    IN
    IF system_creds = NoSystem THEN NoSession
    ELSE IF provider_data = NoProvider THEN NoSession
    ELSE create_session(tenant, app, system_creds, provider_tokens_of(provider_data))

\* POST /auth/connect, lines 513-554: its answer
auth_connect_response(tenant, app) ==
    LET session_data == auth_connect_session(tenant, app) IN
    IF session_data = NoSession THEN Answer(404, <<>>)
    ELSE Answer(200, [session_id |-> session_data.session_id,
                      tenant |-> tenant, app |-> app, expires_in |-> 300])

\* POST /auth/connect, lines 504-559
auth_connect(tenant, app) ==
    LET session_data == auth_connect_session(tenant, app) IN
    /\ IF session_data = NoSession
       THEN UNCHANGED <<sessions, nsessions, created>>
       ELSE /\ nsessions < MaxSessions
            /\ sessions' = [sessions EXCEPT ![session_data.session_id] = session_data]
            /\ nsessions' = nsessions + 1
            /\ created' = [created EXCEPT ![session_data.session_id] =
                              [tenant |-> tenant, app |-> app,
                               system_creds |-> get_system_credentials(tenant, app),
                               provider_tokens |->
                                   provider_tokens_of(get_provider(tenant)),
                               at |-> now]]
    /\ UNCHANGED <<now, process, systems, deleted>>
    /\ UNCHANGED tokvars

\* a disconnect that answers 200 whatever delete_session returned
auth_disconnect_response_lenient(session_id) ==
    IF session_id \in SessionIds THEN Answer(200, <<>>) ELSE Answer(404, <<>>)

\* POST /auth/disconnect, lines 581-595: its answer
auth_disconnect_response(session_id) ==
    IF delete_session(session_id) THEN Answer(200, <<>>) ELSE Answer(404, <<>>)

\* POST /auth/disconnect, lines 573-600
auth_disconnect(session_id) ==
    /\ IF delete_session(session_id)
       THEN /\ sessions' = [sessions EXCEPT ![session_id] = NoSession]
            /\ deleted' = deleted \cup {session_id}
       ELSE UNCHANGED <<sessions, deleted>>
    /\ UNCHANGED <<now, process, systems, nsessions, created>>
    /\ UNCHANGED tokvars

\* a status answer that trusts whatever record the store still holds
auth_status_response_lax(session_id) ==
    IF get_session_unpoliced(session_id) = NoSession THEN Answer(401, <<>>)
    ELSE Answer(200, [session_id |-> session_id,
                      tenant |-> get_session_unpoliced(session_id).tenant,
                      app |-> get_session_unpoliced(session_id).app])

\* a status answer with the application in the tenant field
auth_status_response_swapped(session_id) ==
    IF get_session(session_id) = NoSession THEN Answer(401, <<>>)
    ELSE Answer(200, [session_id |-> session_id,
                      tenant |-> get_session(session_id).app,
                      app |-> get_session(session_id).tenant])

\* GET /auth/status?session_id=..., lines 624-656: its answer
auth_status_response(session_id) ==
    LET session_data == get_session(session_id) IN
    IF session_data = NoSession THEN Answer(401, <<>>)
    ELSE Answer(200, [session_id |-> session_id,
                      tenant |-> session_data.tenant,
                      app |-> session_data.app,
                      expires_at |-> session_data.expires_at,
                      voice_authenticated |->
                          session_data.provider_tokens.access_token # NoToken,
                      provider_token_expiry |->
                          session_data.provider_tokens.token_expiry])

\* a status read that renews the session it finds
auth_status_sliding(session_id) ==
    /\ sessions' = IF get_session(session_id) = NoSession THEN sessions
                   ELSE [sessions EXCEPT ![session_id].expires_at = now + SESSION_TTL]
    /\ UNCHANGED <<now, process, systems, nsessions, created, deleted>>
    /\ UNCHANGED tokvars

\* GET /auth/status?session_id=..., lines 613-656: a read, nothing is written
auth_status(session_id) ==
    /\ auth_status_response(session_id).status \in {200, 401}
    /\ UNCHANGED <<now, process, systems>>
    /\ UNCHANGED sessvars
    /\ UNCHANGED tokvars

\* ------------------------------------------ the store out of reach
\* what a read of the Credential Store gives while the store cannot be
\* reached: the client raises instead of returning a record or nothing
Unreachable == [raised |-> "ConnectionError"]
store_get_provider(t, up) == IF up THEN get_provider(t) ELSE Unreachable
store_get_system_credentials(t, a, up) ==
    IF up THEN get_system_credentials(t, a) ELSE Unreachable

\* get_goto_token, line 85, through get_provider_credentials, lines 73-81:
\* the read is in no try block, the exception leaves the route unhandled
get_goto_token_store_response(t, up) ==
    IF store_get_provider(t, up) = Unreachable THEN Answer(500, <<>>)
    ELSE Answer(get_provider_credentials(t).status, <<>>)

\* POST /auth/connect, lines 511-559: the first read raises, "except
\* Exception" of line 557 answers 500
auth_connect_store_response(tenant, app, up) ==
    IF store_get_system_credentials(tenant, app, up) = Unreachable
    THEN Answer(500, <<>>)
    ELSE auth_connect_response(tenant, app)

\* GET /auth/status?tenant_id=..., lines 658-676: the bare except of line
\* 662 turns an exception of the read into "no token"
auth_status_tenant_response(tenant_id, up) ==
    LET provider_data == store_get_provider(tenant_id, up)
        found == provider_data # Unreachable /\ provider_data # NoProvider
    IN
    Answer(200, [tenant |-> tenant_id,
                 voice_authenticated |->
                     found /\ provider_data.access_token # NoToken,
                 provider_token_expiry |->
                     IF found THEN provider_data.token_expiry ELSE NoExpiry])

\* the three operations as requests that arrive while the store is, or is
\* not, within reach; none of them writes when it is not
auth_status_tenant(tenant_id, up) ==
    /\ auth_status_tenant_response(tenant_id, up).status \in {200, 500}
    /\ UNCHANGED vars
auth_connect_unreachable(tenant, app) ==
    /\ auth_connect_store_response(tenant, app, FALSE).status \in {404, 500}
    /\ UNCHANGED vars
get_goto_token_unreachable(t) ==
    /\ get_goto_token_store_response(t, FALSE).status \in {401, 403, 404, 500}
    /\ UNCHANGED vars

\* ------------------------------------------- app.py, proxied upstream calls
\* a response body: JSON text or other text
Body(fmt, text) == [fmt |-> fmt, text |-> text]
\* JSONResponse(content=text): the text rendered as a JSON string
JsonString(text) == Body("json", <<"string", text>>)
\* the body FastAPI renders for HTTPException(detail=text)
Detail(text) == Body("json", <<"detail", text>>)

\* what the provider does with a proxied request: it answers with a status
\* and a body, or it stays silent until the request's timeout raises
Replied(status, body) == [kind |-> "reply", status |-> status, body |-> body]
TimedOut == [kind |-> "timeout"]
NoReply == [kind |-> "none"]

\* voice_proxy, lines 1126-1135
voice_proxy_response(u) ==
    IF u.kind = "timeout" THEN Answer(500, Detail("timed out"))
    ELSE Answer(u.status,
                IF u.body.fmt = "json" THEN u.body ELSE JsonString(u.body.text))

\* list_call_queues, lines 884-892
list_call_queues_response(u) ==
    IF u.kind = "timeout" THEN Answer(500, Detail("timed out"))
    ELSE IF u.status = 401 THEN Answer(401, Detail(u.body.text))
    ELSE IF u.body.fmt = "json" THEN Answer(200, u.body)
    ELSE Answer(500, Detail("Expecting value"))

route_response(route, u) ==
    IF route = "voice_proxy" THEN voice_proxy_response(u)
    ELSE list_call_queues_response(u)

\* the outcome of a proxied call: the gateway's answer, whether a request
\* went upstream, and what the provider did with it
ProxyResult(route, t, answer, sent, u) ==
    Result(Locals(route, t, NoToken, Seen(get_provider(t)), FALSE, {}),
           answer.status, NoToken, 0, 0, "none", NoToken)
    @@ [body |-> answer.data, sent |-> sent, reply |-> u]

\* list_call_queues (lines 874-892) and voice_proxy (lines 1104-1135) after
\* get_goto_token has returned or raised: the second read of the record,
\* the upstream request with its timeout, the answer to the client
proxied_call(p, route, Answers) ==
    /\ pc[p] = "done"
    /\ ret[p].kind = "gate"
    /\ LET t == ret[p].tenant
           r == get_provider_credentials(t)
       IN
       IF ret[p].status # 200
       THEN Finish(p, ProxyResult(route, t, Answer(ret[p].status, Detail("gate")),
                                  FALSE, NoReply))
       ELSE IF r.status # 200
       THEN Finish(p, ProxyResult(route, t, Answer(r.status, Detail("provider")),
                                  FALSE, NoReply))
       ELSE \E u \in Answers :
                Finish(p, ProxyResult(route, t, route_response(route, u), TRUE, u))
    /\ UNCHANGED <<now, process, providers, systems, wclock, issued>>
    /\ UNCHANGED sessvars

\* ------------------------------------- auth_manager.py, GoToAuthManager
\* seconds get_valid_token stays ahead of the expiry (refresh_token, "- 300")
REFRESH_MARGIN == 300
LEGACY_EXPIRES_IN == 3600
TokenTypes == {"admin", "voice", "scim"}

\* an expiry datetime of the manager, None when get_token_expiry found none
NoTime == [known |-> FALSE, at |-> 0]
Time(at) == [known |-> TRUE, at |-> at]
\* one token type's attributes: self.<type>_access_token,
\* self.<type>_refresh_token, self.<type>_token_expiry
Slot(access_token, refresh_token, expiry) ==
    [access_token |-> access_token, refresh_token |-> refresh_token,
     expiry |-> expiry]
\* the access and refresh token of one token type in .env
Saved(access_token, refresh_token) ==
    [access_token |-> access_token, refresh_token |-> refresh_token]

\* datetime.now(): the host's local wall clock, naive
local_now == now + tz

\* what refresh_token(token_type) meets: no answer is needed when the slot
\* has no refresh token; otherwise the token endpoint answers 200, answers
\* non-200, or the request raises; after a 200 the slot is assigned and the
\* tokens are saved to .env with set_key, which can raise as any file write
LegacyShapes ==
    {[rotate |-> TRUE, expires_in |-> REFRESH_MARGIN + TickStep],
     [rotate |-> TRUE, expires_in |-> TickStep],
     [rotate |-> FALSE, expires_in |-> 0]}
LegacyOutcomes ==
    {[kind |-> "ok", shape |-> shape, saved |-> TRUE] : shape \in LegacyShapes}
    \cup {[kind |-> "ok", shape |-> [rotate |-> TRUE, expires_in |-> 0],
           saved |-> FALSE]}
    \cup {[kind |-> "rejected"], [kind |-> "raised"]}

\* token_data.get('expires_in', 3600), line 202
expires_in_of(shape) ==
    IF shape.expires_in # 0 THEN shape.expires_in ELSE LEGACY_EXPIRES_IN

\* a slot whose expiry is the token's own, with no margin
refreshed_slot_no_margin(slot, access_token, shape) ==
    Slot(access_token,
         IF shape.rotate THEN access_token ELSE slot.refresh_token,
         Time(local_now + expires_in_of(shape)))

\* lines 199-231: the slot after a 200
refreshed_slot(slot, access_token, shape) ==
    Slot(access_token,
         IF shape.rotate THEN access_token ELSE slot.refresh_token,
         Time(local_now + expires_in_of(shape) - REFRESH_MARGIN))

\* lines 211-213: set_key of the access token and, when there is a new one,
\* of the refresh token
saved_tokens(saved, access_token, shape) ==
    Saved(access_token,
          IF shape.rotate THEN access_token ELSE saved.refresh_token)

\* lines 251-265: whether get_valid_token calls refresh_token
needs_refresh(slot) ==
    \/ slot.access_token = NoToken
    \/ slot.expiry.known /\ local_now >= slot.expiry.at

\* the outcome of a call: the token type, the value returned (NoToken for
\* None), whether refresh_token was called, whether it sent a request, and
\* the expires_in of the refresh result (lines 233-237)
NoCall == [token_type |-> "none", value |-> NoToken, refresh |-> FALSE,
           posted |-> FALSE, expires_in |-> 0, at |-> 0]
Returned(token_type, value, refresh, posted, expires_in) ==
    [token_type |-> token_type, value |-> value, refresh |-> refresh,
     posted |-> posted, expires_in |-> expires_in, at |-> now]

\* get_valid_token, lines 251-273, with refresh_token, lines 171-249
get_valid_token(token_type, outcome) ==
    LET slot == auth_manager[token_type] IN
    /\ IF ~needs_refresh(slot)
       THEN /\ valid_token' = Returned(token_type, slot.access_token, FALSE, FALSE, 0)
            /\ UNCHANGED <<auth_manager, dotenv, issued>>
       ELSE IF slot.refresh_token = NoToken
       THEN /\ valid_token' = Returned(token_type, NoToken, TRUE, FALSE, 0)
            /\ UNCHANGED <<auth_manager, dotenv, issued>>
       ELSE IF outcome.kind # "ok"
       THEN /\ valid_token' = Returned(token_type, NoToken, TRUE, TRUE, 0)
            /\ UNCHANGED <<auth_manager, dotenv, issued>>
       ELSE /\ issued < MaxIssued
            /\ issued' = issued + 1
            /\ auth_manager' = [auth_manager EXCEPT ![token_type] =
                                   refreshed_slot(slot, issued + 2, outcome.shape)]
            /\ IF outcome.saved
               THEN /\ dotenv' = [dotenv EXCEPT ![token_type] =
                                     saved_tokens(@, issued + 2, outcome.shape)]
                    /\ valid_token' = Returned(token_type, issued + 2, TRUE, TRUE,
                                                 expires_in_of(outcome.shape))
               ELSE /\ dotenv' = dotenv
                    /\ valid_token' = Returned(token_type, NoToken, TRUE, TRUE, 0)
    /\ UNCHANGED <<now, tz, reply, providers, systems, wclock, pc, loc, ret>>
    /\ UNCHANGED sessvars

\* ------------------------------------ app.py, tenant provider endpoints
\* the one provider the gateway registers for a tenant
ProviderNames == {"goto"}
ViewRoutes == {"get", "list"}
\* a response of a tenant provider endpoint, and no response yet
View(tenant_id, answer) == [tenant_id |-> tenant_id, answer |-> answer]
NoView == [tenant_id |-> "none", answer |-> [status |-> 0, data |-> [none |-> TRUE]]]

\* ProviderManager.get_all_providers: the names of the tenant's providers
get_all_providers(tenant_id) ==
    IF get_provider(tenant_id) = NoProvider THEN <<>> ELSE <<"goto">>

\* dict.pop(key, None), on the copy of the record the store returned
pop(provider_data, key) ==
    [k \in DOMAIN provider_data \ {key} |-> provider_data[k]]

\* a config that keeps the refresh token
provider_config_with_refresh_token(provider_data) ==
    pop(pop(provider_data, "client_secret"), "access_token")

\* lines 1203-1205
provider_config(provider_data) ==
    pop(pop(pop(provider_data, "client_secret"), "access_token"),
        "refresh_token")

\* lines 1179-1189
provider_summary(provider, provider_data) ==
    [provider |-> provider,
     status |-> provider_data.status,
     auth_type |-> provider_data.auth_type,
     account_key |-> provider_data.account_key,
     has_token |-> provider_data.access_token # NoToken,
     token_expiry |-> provider_data.token_expiry,
     features_enabled |-> provider_data.features_enabled,
     created_at |-> provider_data.created_at,
     updated_at |-> provider_data.updated_at]

\* GET /tenants/{tenant_id}/providers, lines 1171-1194
list_tenant_providers_response(tenant_id) ==
    LET names == get_all_providers(tenant_id) IN
    Answer(200, [tenant_id |-> tenant_id,
                 providers |-> [i \in DOMAIN names |->
                     provider_summary(names[i], get_provider(tenant_id))]])

\* GET /tenants/{tenant_id}/providers/{provider}, lines 1197-1212
get_tenant_provider_response(tenant_id, provider) ==
    LET provider_data == IF provider \in ProviderNames
                         THEN get_provider(tenant_id) ELSE NoProvider
    IN
    IF provider_data = NoProvider THEN Answer(404, Detail("not found"))
    ELSE Answer(200, [tenant_id |-> tenant_id, provider |-> provider,
                      config |-> provider_config(provider_data)])

\* the two routes as requests; both only read the store, and the pops of
\* get_tenant_provider act on the copy that get_provider returned
list_tenant_providers(tenant_id) ==
    /\ reply' = [reply EXCEPT !["list"] =
                    View(tenant_id, list_tenant_providers_response(tenant_id))]
    /\ UNCHANGED <<now, tz, auth_manager, dotenv, valid_token, systems>>
    /\ UNCHANGED tokvars
    /\ UNCHANGED sessvars
get_tenant_provider(tenant_id, provider) ==
    /\ reply' = [reply EXCEPT !["get"] =
                    View(tenant_id,
                         get_tenant_provider_response(tenant_id, provider))]
    /\ UNCHANGED <<now, tz, auth_manager, dotenv, valid_token, systems>>
    /\ UNCHANGED tokvars
    /\ UNCHANGED sessvars

\* ---------------------------------------------------------------- clock
Tick(limit) ==
    /\ now + TickStep <= limit
    /\ now' = now + TickStep
    /\ UNCHANGED <<process, systems>>
    /\ UNCHANGED tokvars
    /\ UNCHANGED sessvars

\* ----------------------------------------------------------------- init
\* a record as tools/migrate_env_to_redis.py leaves it: active, with the
\* tokens of .env and the expiry read from the access token (UTC, 'Z')
Migrated(t, e) == ProviderConfig(t, "active", 1, 1, e, 0)

\* GoToAuthManager.__init__, lines 48-59: the tokens of the environment and
\* the expiry read from each access token
EnvSlot == Slot(1, 1, Time(TickStep))
InitManager ==
    /\ auth_manager = [token_type \in TokenTypes |-> EnvSlot]
    /\ dotenv = [token_type \in TokenTypes |-> Saved(1, 1)]
    /\ valid_token = NoCall

\* the stores, the provider and the request processes before any call
InitStores ==
    /\ now = 0
    /\ wclock = 0
    /\ issued = 0
    /\ pc = [p \in Procs |-> "idle"]
    /\ loc = [p \in Procs |-> Idle]
    /\ ret = [p \in Procs |-> NoResult]
    /\ sessions = [s \in 1..MaxSessions |-> NoSession]
    /\ nsessions = 0
    /\ created = [s \in 1..MaxSessions |-> NoSession]
    /\ deleted = {}
    /\ reply = [route \in ViewRoutes |-> NoView]

InitCommon ==
    /\ InitManager
    /\ InitStores
    /\ tz \in HostOffsets

\* the token gate under concurrent requests: one tenant seeded
InitGate ==
    /\ InitCommon
    /\ providers = [t \in Tenants |->
                      IF t = "acme" THEN Migrated(t, Expiry("Z", TickStep))
                      ELSE NoProvider]
    /\ systems = [k \in Tenants \X Apps |-> SystemConfig(k[1], k[2])]

NextGate ==
    \/ \E p \in Procs, t \in Tenants : get_goto_token(p, t)
    \/ \E p \in Procs : refresh_goto_token_read(p)
    \/ \E p \in Procs : refresh_goto_token_post(p, ResponseShapes, {Rejected("invalid_grant")})
    \/ \E p \in Procs : refresh_goto_token_store(p)
    \/ \E p \in Procs : get_goto_token_reread(p)
    \/ Tick(MaxGateNow)

SpecGate == InitGate /\ [][NextGate]_vars

\* the session routes, with one request process refreshing tokens and the
\* seeding tool rewriting the credentials
InitSess ==
    /\ InitCommon
    /\ tz = 0
    /\ providers = [t \in Tenants |->
                      IF t = "acme" THEN Migrated(t, Expiry("Z", TickStep))
                      ELSE NoProvider]
    /\ systems = [k \in Tenants \X Apps |->
                      IF k = <<"acme", "app1">> THEN SystemConfig(k[1], k[2])
                      ELSE NoSystem]

NextSess ==
    \/ \E t \in Tenants, a \in Apps : auth_connect(t, a)
    \/ \E sid \in SessionIds : auth_status(sid)
    \/ \E sid \in SessionIds : auth_disconnect(sid)
    \/ \E sid \in SessionIds : store_expire(sid)
    \/ (wclock < MaxWrites /\ refresh_provider_token("p1", "acme"))
    \/ refresh_goto_token_read("p1")
    \/ refresh_goto_token_post("p1", {Rotating}, {Rejected("invalid_grant")})
    \/ refresh_goto_token_store("p1")
    \/ \E clean \in BOOLEAN : seed_redis_main("acme", "app1", clean)
    \/ Tick(MaxNow)

SpecSess == InitSess /\ [][NextSess]_vars

\* one request process over every shape of record the Credential Store may
\* hold for a tenant: any status of the data model, with or without an
\* access token, with an expiry that is 'Z', naive, unparseable or missing
Statuses == {"active", "inactive", "suspended"}
Expiries == {Expiry("Z", TickStep), Expiry("naive", TickStep),
             Expiry("bad", 0), NoExpiry}
Records ==
    {ProviderConfig("acme", status, at, 1, e, 0) :
        status \in Statuses, at \in {NoToken, 1}, e \in Expiries}
\* response bodies and exception messages are texts
Texts == {"invalid_grant", "Connection refused"}
Failures == {Rejected(body) : body \in Texts} \cup {Raised(text) : text \in Texts}

InitRec ==
    /\ InitCommon
    /\ \E r \in Records :
         providers = [t \in Tenants |-> IF t = "acme" THEN r ELSE NoProvider]
    /\ systems = [k \in Tenants \X Apps |-> SystemConfig(k[1], k[2])]

NextRec ==
    \/ \E t \in Tenants : get_goto_token("p1", t)
    \/ \E t \in Tenants : refresh_provider_token("p1", t)
    \/ refresh_goto_token_read("p1")
    \/ refresh_goto_token_post("p1", ResponseShapes, Failures)
    \/ refresh_goto_token_store("p1")
    \/ get_goto_token_reread("p1")
    \/ Tick(MaxGateNow)

SpecRec == InitRec /\ [][NextRec]_vars

\* token-gate calls of one request process while the record is written by
\* others: the refresh route called by another request and the seeding tool,
\* on a host whose clock is on UTC
NextFresh ==
    \/ \E t \in Tenants : get_goto_token("p1", t)
    \/ refresh_provider_token("p2", "acme")
    \/ \E p \in Procs : refresh_goto_token_read(p)
    \/ \E p \in Procs :
           refresh_goto_token_post(p, ResponseShapes, {Rejected("invalid_grant")})
    \/ \E p \in Procs : refresh_goto_token_store(p)
    \/ get_goto_token_reread("p1")
    \/ \E clean \in BOOLEAN : seed_redis_main("acme", "app1", clean)
    \/ Tick(MaxGateNow)

InitFresh == InitGate /\ tz = 0

SpecFresh == InitFresh /\ [][NextFresh]_vars

\* token-gate calls of one request process while the record is deleted or
\* taken out of use by others
NextRace ==
    \/ \E t \in Tenants : get_goto_token("p1", t)
    \/ refresh_goto_token_read("p1")
    \/ refresh_goto_token_post("p1", ResponseShapes, {Rejected("invalid_grant")})
    \/ refresh_goto_token_store("p1")
    \/ get_goto_token_reread("p1")
    \/ \E t \in Tenants : delete_provider(t)
    \/ \E t \in Tenants, status \in Statuses : put_status(t, status)
    \/ Tick(MaxGateNow)

SpecRace == InitFresh /\ [][NextRace]_vars

\* refreshes and token-gate calls of one request process for two tenants
\* that both have a record
InitIso ==
    /\ InitCommon
    /\ tz = 0
    /\ providers = [t \in Tenants |-> Migrated(t, Expiry("Z", TickStep))]
    /\ systems = [k \in Tenants \X Apps |-> SystemConfig(k[1], k[2])]

NextIso ==
    \/ \E t \in Tenants : get_goto_token("p1", t)
    \/ \E t \in Tenants : refresh_provider_token("p1", t)
    \/ refresh_goto_token_read("p1")
    \/ refresh_goto_token_post("p1", ResponseShapes, {Rejected("invalid_grant")})
    \/ refresh_goto_token_store("p1")
    \/ get_goto_token_reread("p1")
    \/ Tick(MaxGateNow)

SpecIso == InitIso /\ [][NextIso]_vars

\* the legacy manager alone: calls of get_valid_token for every token type
\* against every shape of the slots the environment can leave
InitSlots ==
    {Slot(1, 1, Time(TickStep)), Slot(1, 1, NoTime),
     Slot(1, NoToken, Time(TickStep)), Slot(NoToken, 1, NoTime)}
InitLegacy ==
    /\ InitStores
    /\ tz = 0
    /\ providers = [t \in Tenants |-> NoProvider]
    /\ systems = [k \in Tenants \X Apps |-> NoSystem]
    /\ auth_manager \in [TokenTypes -> InitSlots]
    /\ dotenv = [token_type \in TokenTypes |->
                    Saved(auth_manager[token_type].access_token,
                          auth_manager[token_type].refresh_token)]
    /\ valid_token = NoCall

NextLegacy ==
    \/ \E token_type \in TokenTypes, outcome \in LegacyOutcomes :
           get_valid_token(token_type, outcome)
    \/ Tick(MaxNow)

SpecLegacy == InitLegacy /\ [][NextLegacy]_vars

\* connects against every shape of the tenant's record, while an operator
\* changes its status
InitConnect ==
    /\ InitCommon
    /\ tz = 0
    /\ \E r \in Records :
         providers = [t \in Tenants |-> IF t = "acme" THEN r ELSE NoProvider]
    /\ systems = [k \in Tenants \X Apps |->
                      IF k = <<"acme", "app1">> THEN SystemConfig(k[1], k[2])
                      ELSE NoSystem]

NextConnect ==
    \/ \E t \in Tenants, a \in Apps : auth_connect(t, a)
    \/ \E sid \in SessionIds : auth_status(sid)
    \/ \E t \in Tenants, status \in Statuses : put_status(t, status)
    \/ Tick(MaxNow)

SpecConnect == InitConnect /\ [][NextConnect]_vars

\* the tenant provider endpoints against every shape of the tenant's
\* record, while an operator changes its status
NextView ==
    \/ \E t \in Tenants : list_tenant_providers(t)
    \/ \E t \in Tenants, provider \in ProviderNames \cup {"zoom"} :
         get_tenant_provider(t, provider)
    \/ \E t \in Tenants, status \in Statuses : put_status(t, status)

SpecView == InitConnect /\ [][NextView]_vars

\* the operations that read the Credential Store, as requests that arrive
\* while the store is within reach and while it is not
NextStore ==
    \/ \E t \in Tenants, a \in Apps : auth_connect(t, a)
    \/ \E t \in Tenants, a \in Apps : auth_connect_unreachable(t, a)
    \/ \E t \in Tenants, up \in BOOLEAN : auth_status_tenant(t, up)
    \/ \E t \in Tenants : get_goto_token_unreachable(t)
    \/ \E sid \in SessionIds : store_expire(sid)
    \/ \E clean \in BOOLEAN : seed_redis_main("acme", "app1", clean)
    \/ Tick(MaxNow)

SpecStore == InitSess /\ [][NextStore]_vars

\* the session routes under a clock that keeps running: a connect is taken
\* only while the clock bound leaves room for the session's whole lifetime
NextExpiry ==
    \/ \E t \in Tenants, a \in Apps :
           now + SESSION_TTL <= MaxNow /\ auth_connect(t, a)
    \/ \E sid \in SessionIds : auth_status(sid)
    \/ \E sid \in SessionIds : auth_disconnect(sid)
    \/ \E sid \in SessionIds : store_expire(sid)
    \/ \E clean \in BOOLEAN : seed_redis_main("acme", "app1", clean)
    \/ Tick(MaxNow)

SpecExpiry == InitSess /\ [][NextExpiry]_vars /\ WF_vars(Tick(MaxNow))

\* proxied calls of one request process, against a provider that answers
\* with any status and body or does not answer at all
Routes == {"voice_proxy", "list_call_queues"}
Replies ==
    {Replied(status, body) :
        status \in {200, 401, 404, 500},
        body \in {Body("json", "b1"), Body("text", "b2")}}
    \cup {TimedOut}

InitProxy ==
    /\ InitCommon
    /\ tz = 0
    /\ providers = [t \in Tenants |->
                      IF t = "acme" THEN Migrated(t, Expiry("Z", TickStep))
                      ELSE NoProvider]
    /\ systems = [k \in Tenants \X Apps |-> SystemConfig(k[1], k[2])]

NextProxy ==
    \/ \E t \in Tenants : get_goto_token("p1", t)
    \/ refresh_goto_token_read("p1")
    \/ refresh_goto_token_post("p1", ResponseShapes,
                               {Rejected("invalid_grant"), Silent})
    \/ refresh_goto_token_store("p1")
    \/ get_goto_token_reread("p1")
    \/ \E route \in Routes : proxied_call("p1", route, Replies)
    \/ Tick(MaxGateNow)

SpecProxy == InitProxy /\ [][NextProxy]_vars

\* ===================================================== token gate claims
\* the stored credential of t is active, has an access token, and its
\* expiry is an instant (UTC) that has been reached / is still ahead
ExpiredCredential(t) ==
    /\ providers[t] # NoProvider
    /\ providers[t].status = "active"
    /\ providers[t].access_token # NoToken
    /\ providers[t].token_expiry.fmt = "Z"
    /\ now >= providers[t].token_expiry.wall
ValidCredential(t) ==
    /\ providers[t] # NoProvider
    /\ providers[t].status = "active"
    /\ providers[t].access_token # NoToken
    /\ providers[t].token_expiry.fmt = "Z"
    /\ now < providers[t].token_expiry.wall

\* this step is a step of process p that begins a token-gate call for t
Calls(p, t) ==
    /\ Free(p)
    /\ pc'[p] # pc[p] \/ ret'[p] # ret[p]
    /\ IF pc'[p] = "done"
       THEN ret'[p].kind = "gate" /\ ret'[p].tenant = t
       ELSE loc'[p].kind = "gate" /\ loc'[p].tenant = t

\* C1: a token-gate call on an active credential whose expiry has passed
\* starts a refresh instead of returning; when the refresh is answered 200
\* the call has made exactly one refresh call and one token request and
\* returns the access token the Credential Store holds at its second read,
\* which is not the expired token it first read, which is the token of its
\* own response unless another write came in between, and the record's
\* updated_at is later than the one the call first saw.
C1_Step(p) ==
    /\ \A t \in Tenants :
         ExpiredCredential(t) /\ Calls(p, t) => pc'[p] = "refresh_read"
    /\ pc[p] = "reread" /\ pc'[p] = "done" =>
         LET t == loc[p].tenant IN
         /\ ret'[p].status = 200
         /\ ret'[p].refreshes = 1
         /\ ret'[p].posts = 1
         /\ providers[t] # NoProvider
         /\ ret'[p].token = providers[t].access_token
         /\ ret'[p].token # loc[p].token
         /\ providers[t].updated_at > loc[p].seen
         /\ providers[t].updated_at = loc[p].stamp =>
              ret'[p].token = loc[p].response.access_token
C1_ExpiredTokenRefreshedOnce == [][\A p \in Procs : C1_Step(p)]_vars
C1_Witness ==
    \E p \in Procs :
        /\ pc[p] = "done"
        /\ ret[p].kind = "gate"
        /\ ret[p].refresh = "ok"
        /\ ret[p].status = 200
        /\ ret[p].token = ret[p].response_token
        /\ ret[p].token = providers[ret[p].tenant].access_token

\* C2: when the credential is active and its expiry is ahead, a token-gate
\* call that directly follows a finished call of the same process for the
\* same tenant, with no write to the record since that call's read,
\* returns the same access token as that call, makes no refresh call and
\* no token request, and leaves the Credential Store unchanged.
C2_Step(p) ==
    \A t \in Tenants :
        /\ pc[p] = "done"
        /\ ret[p].kind = "gate"
        /\ ret[p].tenant = t
        /\ ret[p].seen = Seen(providers[t])
        /\ ValidCredential(t)
        /\ Calls(p, t)
        => /\ pc'[p] = "done"
           /\ ret'[p].status = 200
           /\ ret'[p].token = ret[p].token
           /\ ret'[p].refreshes = 0
           /\ ret'[p].posts = 0
           /\ providers' = providers
           /\ systems' = systems
           /\ issued' = issued
           /\ wclock' = wclock
C2_ValidTokenReturnedUnchanged == [][\A p \in Procs : C2_Step(p)]_vars
C2_Witness ==
    \E p \in Procs :
        /\ pc[p] = "done"
        /\ ret[p].again
        /\ ret[p].status = 200
        /\ ret[p].refreshes = 0
        /\ ValidCredential(ret[p].tenant)
        /\ ret[p].token = providers[ret[p].tenant].access_token

\* C3: a token-gate call whose refresh failed ends with RefreshFailed
\* (status 401) and returns no access token.
C3_RefreshFailureIs401 ==
    \A p \in Procs :
        pc[p] = "done" /\ ret[p].kind = "gate" /\ ret[p].refresh = "failed"
        => ret[p].status = 401 /\ ret[p].token = NoToken

\* C4: two overlapping token-gate calls saw the same expired credential and
\* both refreshed; once both have finished, the stored access token is the
\* access token of one of the two refresh responses, and each call that
\* returned a token returned the token of one of those responses.
C4_Responses == {ret[p].response_token : p \in Procs} \ {NoToken}
C4_ConcurrentRefreshTokens ==
    LET t == ret["p1"].tenant IN
    /\ \A p \in Procs : pc[p] = "done" /\ ret[p].kind = "gate" /\ ret[p].refreshes = 1
    /\ ret["p2"].tenant = t
    /\ ret["p2"].seen = ret["p1"].seen
    /\ "p2" \in ret["p1"].conc \/ "p1" \in ret["p2"].conc
    /\ C4_Responses # {}
    => /\ providers[t].access_token \in C4_Responses
       /\ \A p \in Procs : ret[p].status = 200 => ret[p].token \in C4_Responses

\* ======================================================== session claims
Issued(sid) == sid \in 1..MaxSessions /\ created[sid] # NoSession

\* C5: while a session is neither deleted nor older than its lifetime,
\* get_session returns the tenant, the application, the system credentials
\* and the provider tokens that auth_connect passed to create_session, and
\* /auth/status answers 200 with that tenant and application.
C5_StatusEchoesConnect ==
    \A sid \in 1..MaxSessions :
        Issued(sid) /\ sid \notin deleted /\ now < created[sid].at + SESSION_TTL
        => /\ get_session(sid) # NoSession
           /\ get_session(sid).tenant = created[sid].tenant
           /\ get_session(sid).app = created[sid].app
           /\ get_session(sid).system_credentials = created[sid].system_creds
           /\ get_session(sid).provider_tokens = created[sid].provider_tokens
           /\ auth_status_response(sid).status = 200
           /\ auth_status_response(sid).data.tenant = created[sid].tenant
           /\ auth_status_response(sid).data.app = created[sid].app
C5_Witness ==
    \E sid \in 1..MaxSessions :
        /\ Issued(sid) /\ sid \notin deleted
        /\ now > created[sid].at /\ now < created[sid].at + SESSION_TTL
        /\ created[sid].provider_tokens.access_token # NoToken
        /\ auth_status_response(sid).status = 200

\* C6: a session created more than 300 seconds ago is absent for
\* get_session, and /auth/status answers 401, whether or not the store has
\* removed the record.
C6_OldSessionAbsent ==
    \A sid \in 1..MaxSessions :
        Issued(sid) /\ now > created[sid].at + SESSION_TTL
        => /\ get_session(sid) = NoSession
           /\ auth_status_response(sid).status = 401
C6_Witness ==
    \E sid \in 1..MaxSessions :
        /\ Issued(sid) /\ now > created[sid].at + SESSION_TTL
        /\ Stored(sid)
        /\ get_session(sid) = NoSession

\* C7: deleting a stored session returns true (HTTP 200) and removes it;
\* deleting a session that was deleted before, or an id that was never
\* issued, returns false (HTTP 404, not an error).
C7_State ==
    \A sid \in SessionIds :
        /\ Stored(sid) => delete_session(sid) /\ auth_disconnect_response(sid).status = 200
        /\ sid \in deleted =>
             ~delete_session(sid) /\ auth_disconnect_response(sid).status = 404
        /\ ~Issued(sid) =>
             ~delete_session(sid) /\ auth_disconnect_response(sid).status = 404
C7_Step ==
    \A sid \in SessionIds :
        sid \in deleted' \ deleted
        => /\ auth_disconnect_response(sid).status = 200
           /\ ~Stored(sid)'
           /\ auth_disconnect_response(sid)'.status = 404
C7_DeleteIdempotent == []C7_State /\ [][C7_Step]_vars
C7_Witness ==
    \E sid \in SessionIds, other \in SessionIds :
        /\ sid \in deleted
        /\ auth_disconnect_response(sid).status = 404
        /\ Stored(other)
        /\ ~Issued(0)

\* C8: a session that has become absent (deleted, expired or removed by
\* the store) stays absent, and the expires_at of a stored session never
\* changes.
C8_Step ==
    \A sid \in 1..MaxSessions :
        /\ Issued(sid) /\ get_session(sid) = NoSession
           => get_session(sid)' = NoSession
        /\ Stored(sid) /\ Stored(sid)'
           => /\ sessions'[sid].expires_at = sessions[sid].expires_at
              /\ sessions'[sid].expires_at = created[sid].at + SESSION_TTL
C8_NoRevivalNoRenewal == [][C8_Step]_vars
C8_Witness ==
    \E sid \in 1..MaxSessions, other \in 1..MaxSessions :
        /\ Issued(sid) /\ get_session(sid) = NoSession
        /\ get_session(other) # NoSession
        /\ created[other].at > created[sid].at
        /\ created[other].tenant = created[sid].tenant
        /\ created[other].app = created[sid].app

\* C9: a step that writes the Credential Store (a token refresh, a seeding
\* of the system credentials or of the provider tokens) changes no session
\* record and makes no session absent.
C9_Step ==
    providers' # providers \/ systems' # systems
    => \A sid \in 1..MaxSessions :
           /\ sessions'[sid] = sessions[sid]
           /\ get_session(sid)' = get_session(sid)
C9_SessionIsSnapshot == [][C9_Step]_vars
C9_Witness ==
    \E sid \in 1..MaxSessions :
        /\ get_session(sid) # NoSession
        /\ providers[get_session(sid).tenant] # NoProvider
        /\ get_session(sid).provider_tokens.access_token
             # providers[get_session(sid).tenant].access_token
        /\ get_session(sid).provider_tokens = created[sid].provider_tokens

\* C10: when the SystemCredential of (tenant, app) or the 'goto'
\* ProviderCredential of the tenant is missing, /auth/connect answers 404
\* and creates no session: every session that enters the store was created
\* for a pair whose two records existed.
C10_State ==
    \A tenant \in Tenants, app \in Apps :
        get_system_credentials(tenant, app) = NoSystem
        \/ get_provider(tenant) = NoProvider
        => /\ auth_connect_response(tenant, app).status = 404
           /\ auth_connect_session(tenant, app) = NoSession
C10_Step ==
    \A sid \in 1..MaxSessions :
        ~Stored(sid) /\ Stored(sid)'
        => /\ get_system_credentials(sessions'[sid].tenant, sessions'[sid].app) # NoSystem
           /\ get_provider(sessions'[sid].tenant) # NoProvider
           /\ sessions'[sid].system_credentials # NoSystem
C11_StatusValidity ==
    \A sid \in SessionIds :
        /\ auth_status_response(sid).status \in {200, 401}
        /\ auth_status_response(sid).status = 200
           <=> /\ Issued(sid)
               /\ sid \notin deleted
               /\ now < created[sid].at + SESSION_TTL
C11_Witness ==
    \E gone \in SessionIds, old \in SessionIds :
        /\ ~Issued(0) /\ auth_status_response(0).status = 401
        /\ gone \in deleted /\ auth_status_response(gone).status = 401
        /\ Stored(old) /\ now >= sessions[old].expires_at
        /\ auth_status_response(old).status = 401

\* ============================================= token gate, record shapes
\* the step ends the call at once, makes no refresh call and no token
\* request, and writes nothing
EndsAtOnce(p) ==
    /\ pc'[p] = "done"
    /\ ret'[p].refreshes = 0
    /\ ret'[p].posts = 0
    /\ providers' = providers
    /\ systems' = systems
    /\ issued' = issued
    /\ wclock' = wclock

\* C12: a token-gate call for a credential whose status is inactive or
\* suspended ends with ProviderInactive (403) and no token, whatever
\* tokens and expiry the record holds, and attempts no refresh.
C12_Step(p) ==
    \A t \in Tenants :
        /\ providers[t] # NoProvider
        /\ providers[t].status \in {"inactive", "suspended"}
        /\ Calls(p, t)
        => /\ EndsAtOnce(p)
           /\ ret'[p].status = 403
           /\ ret'[p].token = NoToken
C12_InactiveRefused == [][\A p \in Procs : C12_Step(p)]_vars
C12_Witness ==
    \E p \in Procs :
        /\ pc[p] = "done" /\ ret[p].kind = "gate" /\ ret[p].status = 403
        /\ providers[ret[p].tenant].status = "suspended"
        /\ providers[ret[p].tenant].access_token # NoToken
        /\ providers[ret[p].tenant].token_expiry.fmt = "Z"
        /\ now < providers[ret[p].tenant].token_expiry.wall

\* C13: a token-gate call for a tenant with no 'goto' credential ends with
\* ProviderNotFound (404), makes no token request and writes nothing to
\* the store.
C13_Step(p) ==
    \A t \in Tenants :
        providers[t] = NoProvider /\ Calls(p, t)
        => /\ EndsAtOnce(p)
           /\ ret'[p].status = 404
           /\ ret'[p].token = NoToken
           /\ providers'[t] = NoProvider
C13_MissingProviderIs404 == [][\A p \in Procs : C13_Step(p)]_vars
C13_Witness ==
    \E p \in Procs :
        /\ pc[p] = "done" /\ ret[p].kind = "gate" /\ ret[p].status = 404
        /\ ret[p].tenant = "globex"
        /\ providers["globex"] = NoProvider
        /\ ret[p].posts = 0
        /\ wclock = 0

\* C14: a token-gate call for an active credential without access token
\* ends with NoToken (401) and does not invoke the refresher, also when
\* a refresh token is stored and the expiry has passed.
C14_Step(p) ==
    \A t \in Tenants :
        /\ providers[t] # NoProvider
        /\ providers[t].status = "active"
        /\ providers[t].access_token = NoToken
        /\ Calls(p, t)
        => /\ EndsAtOnce(p)
           /\ ret'[p].status = 401
           /\ ret'[p].token = NoToken
C14_NoTokenIs401 == [][\A p \in Procs : C14_Step(p)]_vars
C14_Witness ==
    \E p \in Procs :
        /\ pc[p] = "done" /\ ret[p].kind = "gate" /\ ret[p].status = 401
        /\ providers[ret[p].tenant].status = "active"
        /\ providers[ret[p].tenant].access_token = NoToken
        /\ providers[ret[p].tenant].refresh_token # NoToken
        /\ providers[ret[p].tenant].token_expiry.fmt = "Z"
        /\ now >= providers[ret[p].tenant].token_expiry.wall

\* C15: a token-gate call for an active credential with an access token
\* whose token_expiry is missing or does not parse returns the stored
\* access token and does not invoke the refresher, at every time.
C15_Step(p) ==
    \A t \in Tenants :
        /\ providers[t] # NoProvider
        /\ providers[t].status = "active"
        /\ providers[t].access_token # NoToken
        /\ providers[t].token_expiry.fmt \in {"none", "bad"}
        /\ Calls(p, t)
        => /\ EndsAtOnce(p)
           /\ ret'[p].status = 200
           /\ ret'[p].token = providers[t].access_token
C15_UnreadableExpiryPresumedValid == [][\A p \in Procs : C15_Step(p)]_vars
C15_Witness ==
    \E p \in Procs :
        /\ pc[p] = "done" /\ ret[p].kind = "gate" /\ ret[p].status = 200
        /\ ret[p].refreshes = 0
        /\ providers[ret[p].tenant].token_expiry.fmt = "bad"
        /\ ret[p].token = providers[ret[p].tenant].access_token
        /\ now >= MaxGateNow

\* ======================================================= refresh claims
\* this step is the store step (pm.update_tokens) of p's refresh
Stores(p) == pc[p] = "store" /\ pc'[p] # "store"

\* C16 as stated: after a successful refresh the stored refresh_token is
\* the response's refresh_token when the response carries one, and the
\* refresh token the store held just before, unchanged, when it omits it.
C16_Original_Step(p) ==
    Stores(p) =>
        providers'[loc[p].tenant].refresh_token =
            IF loc[p].response.refresh_token # NoToken
            THEN loc[p].response.refresh_token
            ELSE providers[loc[p].tenant].refresh_token
C16_Step(p) ==
    Stores(p) =>
        LET t == loc[p].tenant
            response == loc[p].response
        IN
        /\ providers'[t].access_token = response.access_token
        /\ response.refresh_token # NoToken
           => providers'[t].refresh_token = response.refresh_token
        /\ response.refresh_token = NoToken
           => /\ providers'[t].refresh_token = loc[p].provider_data.refresh_token
              /\ providers[t].updated_at = loc[p].provider_data.updated_at
                 => providers'[t].refresh_token = providers[t].refresh_token
KeptFields ==
    {"client_id", "client_secret", "account_key", "api_base_url", "status",
     "auth_type", "features_enabled", "created_at"}
C17_Step(p) ==
    Stores(p) =>
        LET t == loc[p].tenant IN
        /\ DOMAIN providers'[t] = DOMAIN providers[t]
        /\ \A f \in KeptFields : providers'[t][f] = providers[t][f]
        /\ providers'[t].updated_at > providers[t].updated_at
        /\ \A u \in Tenants \ {t} : providers'[u] = providers[u]
        /\ systems' = systems
C17_RefreshWritesTokensOnly == [][\A p \in Procs : C17_Step(p)]_vars
C17_Witness ==
    /\ wclock >= 1
    /\ providers["acme"].status = "inactive"
    /\ providers["acme"].access_token >= 2
    /\ providers["acme"].updated_at = wclock
    /\ providers["acme"].created_at = 0

\* this step ends p's refresh in a failure
Fails(p) ==
    /\ pc[p] \in {"refresh_read", "post"}
    /\ pc'[p] = "done"
    /\ ret'[p].refresh = "failed"

\* C18: when the token endpoint answers the refresh with a non-200 status,
\* the refresh fails with the response body as its error, has made one
\* token request and makes no other, and leaves the record unchanged.
C18_Step(p) ==
    Fails(p) /\ ret'[p].cause = "rejected"
    => /\ RefreshResult(ret'[p].error) = [success |-> FALSE, error |-> ret'[p].upstream]
       /\ ret'[p].posts = 1
       /\ ret'[p].refreshes = 1
       /\ providers' = providers
       /\ providers[loc[p].tenant] # NoProvider =>
            providers[loc[p].tenant].updated_at = loc[p].provider_data.updated_at
       /\ wclock' = wclock
       /\ issued' = issued
C18_RejectionSurfacesBody == [][\A p \in Procs : C18_Step(p)]_vars
C18_Witness ==
    \E p \in Procs :
        /\ pc[p] = "done" /\ ret[p].kind = "refresh"
        /\ ret[p].cause = "rejected"
        /\ ret[p].error = "invalid_grant"
        /\ ret[p].status = 500
        /\ wclock = 0
        /\ providers[ret[p].tenant].access_token = 1

\* C19: when the token request raises, the refresh fails with the
\* exception's text as its message and with a result that no rejection by
\* the token endpoint produces (a transient classification).
C19_Rejections == {RefreshResult(Rejected(body).error) : body \in Texts}
C19_TransientIsClassified ==
    \A p \in Procs :
        pc[p] = "done" /\ ret[p].cause = "raised"
        => /\ ret[p].error = ret[p].upstream
           /\ RefreshResult(ret[p].error) \notin C19_Rejections

\* C20: a refresh for a tenant with no stored credential fails with
\* "Provider not found", sends no token request and creates no record.
C20_Step(p) ==
    /\ pc[p] = "refresh_read"
    /\ providers[loc[p].tenant] = NoProvider
    /\ pc'[p] # pc[p]
    => /\ Fails(p)
       /\ ret'[p].cause = "missing"
       /\ RefreshResult(ret'[p].error) =
              [success |-> FALSE, error |-> "Provider not found"]
       /\ ret'[p].posts = 0
       /\ providers' = providers
       /\ issued' = issued
       /\ wclock' = wclock
C20_RefreshMissingProvider == [][\A p \in Procs : C20_Step(p)]_vars
C20_Witness ==
    \E p \in Procs :
        /\ pc[p] = "done" /\ ret[p].kind = "refresh"
        /\ ret[p].cause = "missing"
        /\ ret[p].tenant = "globex"
        /\ ret[p].posts = 0
        /\ providers["globex"] = NoProvider

\* C21: nothing is retried: a call moves forward only (read, token request,
\* store, second read, end), so that one token-gate call makes at most one
\* refresh call and one refresh sends at most one token request, whether
\* the request is answered 200, refused or raises.
C21_Order == [n \in {"idle", "done"} |-> 0] @@
             ("refresh_read" :> 1) @@ ("post" :> 2) @@ ("store" :> 3) @@
             ("reread" :> 4) @@ ("blocked" :> 5)
C21_Step(p) ==
    /\ ~Free(p) /\ pc'[p] # pc[p]
       => \/ pc'[p] = "done"
          \/ C21_Order[pc'[p]] > C21_Order[pc[p]]
    /\ pc[p] # "post" /\ pc'[p] # pc[p] => issued' = issued
    /\ issued' \in {issued, issued + 1}
    /\ pc'[p] = "done" /\ ret'[p] # ret[p]
       => /\ ret'[p].refreshes <= 1
          /\ ret'[p].posts <= ret'[p].refreshes
          /\ ret'[p].posts = (IF pc[p] \in {"post", "store", "reread"} THEN 1 ELSE 0)
C21_NoRetry == [][\A p \in Procs : C21_Step(p)]_vars
C21_Witness ==
    \E p \in Procs, q \in Procs :
        /\ pc[p] = "done" /\ ret[p].kind = "gate"
        /\ ret[p].refresh = "failed" /\ ret[p].posts = 1 /\ ret[p].refreshes = 1
        /\ pc[q] = "done" /\ ret[q].kind = "gate"
        /\ ret[q].refresh = "ok" /\ ret[q].posts = 1 /\ ret[q].refreshes = 1

\* C22: every record that holds an access token holds a token_expiry, and
\* every step that creates a record or changes its access token writes, in
\* the same step, the expiry that write computed (now plus the lifetime of
\* the token) and stamps updated_at.
C22_State ==
    \A t \in Tenants :
        providers[t] # NoProvider /\ providers[t].access_token # NoToken
        => providers[t].token_expiry.fmt = "Z"
C22_Written ==
    {expires_at_of(e) : e \in {Rotating.expires_in, DEFAULT_EXPIRES_IN}}
    \cup {Expiry("Z", now + SEED_EXPIRES_IN)}
C22_Step ==
    \A t \in Tenants :
        /\ providers'[t] # NoProvider
        /\ \/ providers[t] = NoProvider
           \/ providers'[t].access_token # providers[t].access_token
        => /\ providers'[t].token_expiry \in C22_Written
           /\ providers'[t].updated_at = wclock + 1
           /\ wclock' = wclock + 1
C22_TokenWrittenWithExpiry == []C22_State /\ [][C22_Step]_vars
C22_Witness ==
    /\ providers["acme"] # NoProvider
    /\ providers["acme"].access_token = 2
    /\ now > 0
    /\ providers["acme"].token_expiry = Expiry("Z", now + Rotating.expires_in)
    /\ providers["acme"].updated_at = wclock
    /\ wclock >= 1

\* C23: the store step of a refresh made at UTC instant now, with
\* expires_in e in the response (3600 when omitted), stores a token_expiry
\* that denotes the UTC instant now + e, whatever the host's time zone.
C23_Step(p) ==
    Stores(p) =>
        providers'[loc[p].tenant].token_expiry =
            Expiry("Z", now + (IF loc[p].response.expires_in # 0
                               THEN loc[p].response.expires_in
                               ELSE DEFAULT_EXPIRES_IN))
C23_ExpiryIsUtc == [][\A p \in Procs : C23_Step(p)]_vars

\* ================================================== termination of the calls
\* the steps a call of process p can still take by itself
C24_Proceeds(p) ==
    \/ refresh_goto_token_read(p)
    \/ refresh_goto_token_post(p, ResponseShapes,
                               {Rejected("invalid_grant"), Silent})
    \/ refresh_goto_token_store(p)
    \/ get_goto_token_reread(p)

\* C24: no operation blocks indefinitely: a call that has not ended can
\* always take a step of its own, also when the upstream never answers,
\* because every upstream request gives up after its timeout
C24_NoOperationBlocks == ~Free("p1") => ENABLED C24_Proceeds("p1")

\* ========================================================== session expiry
\* C25: every created session eventually becomes invalid without any
\* disconnect: from some point on every get_session of its id returns absent
C25_SessionsExpire ==
    \A sid \in 1..MaxSessions :
        [](Issued(sid) => <>[](get_session(sid) = NoSession))
\* a session nobody disconnected, whose record the store still holds, is
\* absent to get_session
C25_Witness ==
    \E sid \in 1..MaxSessions :
        /\ Issued(sid)
        /\ sid \notin deleted
        /\ Stored(sid)
        /\ get_session(sid) = NoSession

\* C26: every session record has expires_at = created_at + 300 s, whatever
\* the tenant, the application and the time of the connect, and the connect
\* that creates it answers expires_in = 300
C26_State ==
    \A sid \in 1..MaxSessions :
        Stored(sid) => sessions[sid].expires_at = sessions[sid].created_at + 300
C26_Step ==
    \A sid \in 1..MaxSessions :
        (~Issued(sid) /\ Issued(sid)') =>
            /\ sessions'[sid].created_at = now
            /\ sessions'[sid].expires_at = now + 300
            /\ auth_connect_response(sessions'[sid].tenant, sessions'[sid].app)
                   = Answer(200, [session_id |-> sid,
                                  tenant |-> sessions'[sid].tenant,
                                  app |-> sessions'[sid].app,
                                  expires_in |-> 300])
C26_FixedTtl == []C26_State /\ [][C26_Step]_vars
\* a session created after the clock has moved
C26_Witness ==
    \E sid \in 1..MaxSessions :
        /\ Stored(sid)
        /\ sessions[sid].created_at > 0
        /\ sessions[sid].expires_at = sessions[sid].created_at + 300

\* C27: every successful connect returns an id that no earlier connect
\* returned, whether that earlier session is live, expired or deleted, so a
\* connect never overwrites or revives the record of another session
C27_Step ==
    /\ \A sid \in 1..MaxSessions :
           Issued(sid) =>
               /\ created'[sid] = created[sid]
               /\ sessions'[sid] \in {NoSession, sessions[sid]}
    /\ nsessions' # nsessions =>
           \E sid \in 1..MaxSessions :
               /\ ~Issued(sid)
               /\ Issued(sid)'
               /\ sessions'[sid].session_id = sid
               /\ auth_connect_response(sessions'[sid].tenant,
                                        sessions'[sid].app).data.session_id = sid
               /\ \A other \in (1..MaxSessions) \ {sid} :
                      /\ created'[other] = created[other]
                      /\ sessions'[other] = sessions[other]
C27_FreshSessionIds == [][C27_Step]_vars
\* a second session created after the first was deleted
C27_Witness ==
    /\ nsessions = 2
    /\ 1 \in deleted
    /\ ~Stored(1)
    /\ Stored(2)
    /\ sessions[2].session_id = 2

\* ======================================================= no token cache
\* C28: the token gate keeps no token in the process: a call made while the
\* stored credential is active and unexpired ends at once with the access
\* token the Credential Store holds at that moment, whoever wrote it
\* (another request's refresh, the seeding tool) and whatever token the
\* process returned before
C28_Step(p) ==
    \A t \in Tenants :
        ValidCredential(t) /\ Calls(p, t)
        => /\ pc'[p] = "done"
           /\ ret'[p].status = 200
           /\ ret'[p].token = providers[t].access_token
           /\ ret'[p].refreshes = 0
C28_NoTokenCache == [][\A p \in Procs : C28_Step(p)]_vars
\* a call that made no refresh itself returned a token that was stored
\* after the record was first migrated
C28_Witness ==
    /\ pc["p1"] = "done"
    /\ ret["p1"].kind = "gate"
    /\ ret["p1"].status = 200
    /\ ret["p1"].refreshes = 0
    /\ ret["p1"].seen >= 1
    /\ ret["p1"].token > 1
    /\ ret["p1"].token = providers[ret["p1"].tenant].access_token
    /\ ValidCredential(ret["p1"].tenant)

\* ================================================== the store out of reach
\* C29: while the Credential Store cannot be reached, the token gate, the
\* connect and the status by tenant each answer with a failure of the
\* gateway itself: never "not found" (404), never "no token" (401), never
\* a successful status that says "not authenticated"
C29_UnreachableIsAFailure ==
    \A t \in Tenants, a \in Apps :
        /\ get_goto_token_store_response(t, FALSE).status \notin {200, 401, 404}
        /\ auth_connect_store_response(t, a, FALSE).status \notin {200, 404}
        /\ auth_status_tenant_response(t, FALSE).status # 200

\* ============================================ upstream errors passed through
\* C30: when the provider answers a proxied request with a status outside
\* 200..299 and a body, the gateway answers the client with that status and
\* that body
C30_UpstreamErrorForwarded ==
    \A p \in Procs :
        /\ pc[p] = "done"
        /\ ret[p].kind \in Routes
        /\ ret[p].sent
        /\ ret[p].reply.kind = "reply"
        /\ ret[p].reply.status \notin 200..299
        => /\ ret[p].status = ret[p].reply.status
           /\ ret[p].body = ret[p].reply.body

\* ================================================= concurrent token gates
\* the calls of other processes that are under way for tenant t
InFlight(p, t) == {q \in Procs \ {p} : ~Free(q) /\ loc[q].tenant = t}

\* C31: the check and the refresh are not one atomic step: a token-gate
\* call on an expired credential starts its own refresh also while another
\* call is refreshing the same credential, and once it has read the record
\* nothing but the provider's answer stands between it and its own token
\* request; so two calls can each send one for a single expiry
C31_Step(p) ==
    /\ \A t \in Tenants :
          ExpiredCredential(t) /\ Calls(p, t) /\ InFlight(p, t) # {}
          => /\ pc'[p] = "refresh_read"
             /\ loc'[p].conc = InFlight(p, t)
    /\ pc[p] = "post" /\ pc'[p] = "store" /\ loc[p].kind = "gate"
          => /\ issued' = issued + 1
             /\ loc'[p].response.access_token = issued + 2
C31_RefreshNotExactlyOnce == [][\A p \in Procs : C31_Step(p)]_vars
\* both calls saw the same expired record, overlapped, and each made one
\* token request that the provider answered with a token
C31_Witness ==
    /\ \A p \in Procs :
          /\ pc[p] = "done"
          /\ ret[p].kind = "gate"
          /\ ret[p].tenant = "acme"
          /\ ret[p].posts = 1
          /\ ret[p].refresh = "ok"
    /\ ret["p1"].seen = ret["p2"].seen
    /\ "p1" \in ret["p2"].conc
    /\ ret["p1"].response_token # ret["p2"].response_token
    /\ issued = 2

\* C32: when the read that follows a successful refresh finds the record
\* gone or not active, the token-gate call fails with 404 or 403 and
\* returns no token
C32_Step(p) ==
    pc[p] = "reread" /\ pc'[p] = "done" =>
        LET r == get_provider_credentials(loc[p].tenant) IN
        r.status # 200 =>
            /\ ret'[p].status = r.status
            /\ ret'[p].token = NoToken
C32_RereadFailureIsRaised == [][\A p \in Procs : C32_Step(p)]_vars

\* C33: a refresh whose response carries no refresh_token never replaces a
\* refresh token that another refresh has stored since this one read the
\* record: its store step leaves the stored refresh_token as it finds it
C33_Step(p) ==
    LET t == loc[p].tenant IN
    /\ Stores(p)
    /\ loc[p].response.refresh_token = NoToken
    /\ providers[t] # NoProvider
    /\ providers[t].updated_at > loc[p].provider_data.updated_at
    => providers'[t].refresh_token = providers[t].refresh_token
C33_NewerRefreshTokenKept == [][\A p \in Procs : C33_Step(p)]_vars

\* ================================================= connect and the record
\* C34: a connect issues a session only for a tenant whose 'goto' record
\* is active at that moment
C34_Step ==
    \A sid \in 1..MaxSessions :
        ~Issued(sid) /\ Issued(sid)'
        => get_provider(sessions'[sid].tenant).status = "active"
C34_ConnectNeedsActive == [][C34_Step]_vars

\* C35: a connect makes no token request and writes nothing to the
\* Credential Store; the provider_tokens of the session it creates are the
\* record's access_token, refresh_token, token_expiry and account_key as
\* stored at that moment, also when the access token has expired or is
\* missing
C35_Step ==
    \A sid \in 1..MaxSessions :
        ~Issued(sid) /\ Issued(sid)'
        => LET record == get_provider(sessions'[sid].tenant)
               snapshot == sessions'[sid].provider_tokens
           IN
           /\ snapshot.access_token = record.access_token
           /\ snapshot.refresh_token = record.refresh_token
           /\ snapshot.token_expiry = record.token_expiry
           /\ snapshot.account_key = record.account_key
           /\ providers' = providers
           /\ systems' = systems
           /\ wclock' = wclock
           /\ issued' = issued
           /\ pc' = pc
C35_ConnectSnapshotsAsStored == [][C35_Step]_vars
\* a session created after the record's access token had expired, holding
\* that token, with the record as it was
C35_Witness ==
    \E sid \in 1..MaxSessions :
        /\ Stored(sid)
        /\ sessions[sid].provider_tokens.access_token # NoToken
        /\ sessions[sid].provider_tokens.token_expiry = Expiry("Z", TickStep)
        /\ sessions[sid].created_at >= TickStep
        /\ sessions[sid].provider_tokens.access_token
              = providers[sessions[sid].tenant].access_token
        /\ wclock = 0
        /\ issued = 0

\* ======================================================= tenant isolation
\* C36: a refresh for tenant T builds its token request from the
\* refresh_token, client_id and client_secret of T's own record as read in
\* that call, sends that request, and writes T's record only: the records
\* of the other tenants and all SystemCredentials stay as they are
C36_Step(p) ==
    /\ pc[p] = "refresh_read" /\ pc'[p] = "post"
       => LET own == providers[loc[p].tenant] IN
          /\ loc'[p].request.refresh_token = own.refresh_token
          /\ loc'[p].request.client_id = own.client_id
          /\ loc'[p].request.client_secret = own.client_secret
          /\ loc'[p].request.client_id = <<"client_id", loc[p].tenant>>
    /\ pc[p] = "post" /\ pc'[p] = "store"
       => loc'[p].request = token_request(loc[p].provider_data)
    /\ ~Free(p)
       => /\ \A u \in Tenants \ {loc[p].tenant} : providers'[u] = providers[u]
          /\ systems' = systems
C36_TenantIsolation == [][C36_Step("p1")]_vars
\* both tenants have been refreshed, each record holds the tokens of its
\* own refresh and its own client
C36_Witness ==
    /\ \A t \in Tenants :
          /\ providers[t].access_token > 1
          /\ providers[t].client_id = <<"client_id", t>>
    /\ providers["acme"].access_token # providers["globex"].access_token
    /\ wclock = 2

\* ==================================================== the legacy manager
\* this step is a call of get_valid_token for the token type
Called(token_type) ==
    /\ valid_token' # valid_token
    /\ valid_token'.token_type = token_type

\* C37: get_valid_token(token_type) attempts a refresh exactly when the
\* slot has no access token or its recorded expiry has passed; a refresh
\* that succeeds returns the new token and changes that slot only; a
\* refresh that fails returns None and leaves the access token, refresh
\* token and expiry of all three slots as they were
C37_Step ==
    \A token_type \in TokenTypes :
        Called(token_type) =>
            LET slot == auth_manager[token_type] IN
            /\ valid_token'.refresh <=>
                  \/ slot.access_token = NoToken
                  \/ slot.expiry.known /\ now + tz >= slot.expiry.at
            /\ \A other \in TokenTypes \ {token_type} :
                  auth_manager'[other] = auth_manager[other]
            /\ valid_token'.refresh /\ valid_token'.value # NoToken
                  => /\ auth_manager'[token_type].access_token = valid_token'.value
                     /\ valid_token'.value # slot.access_token
            /\ ~valid_token'.refresh
                  => /\ valid_token'.value = slot.access_token
                     /\ auth_manager' = auth_manager
            /\ valid_token'.refresh /\ valid_token'.value = NoToken
                  => auth_manager' = auth_manager
C37_LegacyGetValidToken == [][C37_Step]_vars

\* the last call was a refresh of token_type that succeeded
Refreshed(token_type) ==
    /\ valid_token.token_type = token_type
    /\ valid_token.refresh
    /\ valid_token.value # NoToken

\* C38 as stated: after a successful refresh at time t with expires_in e
\* the recorded expiry is t + e - 300, the cached token is returned with no
\* upstream call before that time and a refresh is made from that time on,
\* and a call that immediately follows a successful refresh never refreshes
C38_StepOriginal ==
    \A token_type \in TokenTypes :
        Called(token_type) =>
            LET slot == auth_manager[token_type] IN
            /\ valid_token'.refresh /\ valid_token'.value # NoToken
                  => auth_manager'[token_type].expiry =
                        Time(now + tz + valid_token'.expires_in - 300)
            /\ Refreshed(token_type)
                  => /\ now + tz < valid_token.at + tz + valid_token.expires_in - 300
                          => /\ ~valid_token'.refresh
                             /\ valid_token'.value = valid_token.value
                             /\ issued' = issued
                     /\ now + tz >= valid_token.at + tz + valid_token.expires_in - 300
                          => valid_token'.refresh
                     /\ now = valid_token.at => ~valid_token'.refresh
C38_Original == [][C38_StepOriginal]_vars

\* C38, amended: after a successful refresh at time t with expires_in e the
\* recorded expiry is t + e - 300; the next call for that token type returns
\* the cached token with no upstream call at every time before t + e - 300
\* and refreshes at every time from t + e - 300 on; a call that immediately
\* follows a successful refresh performs no further refresh when e > 300,
\* and refreshes again when e <= 300
C38_Step ==
    \A token_type \in TokenTypes :
        Called(token_type) =>
            LET slot == auth_manager[token_type] IN
            /\ valid_token'.refresh /\ valid_token'.value # NoToken
                  => auth_manager'[token_type].expiry =
                        Time(now + tz + valid_token'.expires_in - 300)
            /\ Refreshed(token_type)
                  => /\ now + tz < valid_token.at + tz + valid_token.expires_in - 300
                          => /\ ~valid_token'.refresh
                             /\ valid_token'.value = valid_token.value
                             /\ issued' = issued
                     /\ now + tz >= valid_token.at + tz + valid_token.expires_in - 300
                          => valid_token'.refresh
                     /\ now = valid_token.at
                          => (valid_token'.refresh <=> valid_token.expires_in <= 300)
            /\ slot.access_token # NoToken /\ slot.expiry.known
                  => /\ now + tz < slot.expiry.at
                          => /\ ~valid_token'.refresh
                             /\ valid_token'.value = slot.access_token
                             /\ issued' = issued
                     /\ now + tz >= slot.expiry.at => valid_token'.refresh
C38_ExpiryKeepsMargin == [][C38_Step]_vars
\* a token that a refresh issued is returned from the slot at a later call
C38_Witness ==
    /\ ~valid_token.refresh
    /\ valid_token.value > 1
    /\ auth_manager[valid_token.token_type].expiry.known
    /\ now + tz < auth_manager[valid_token.token_type].expiry.at

\* the fields the tenant provider endpoints must keep to themselves
SecretFields == {"client_secret", "access_token", "refresh_token"}
\* the records that differ from provider_data in the secret fields only
SecretVariants(provider_data) ==
    {[provider_data EXCEPT !.client_secret = cs, !.access_token = at,
                           !.refresh_token = rt] :
        cs \in {<<"client_secret", "acme">>, <<"client_secret", "other">>},
        at \in 0..2, rt \in 0..2}
Answered(route) == reply'[route] # reply[route]

\* C39: the tenant provider endpoints never disclose secrets: the response
\* of GET /tenants/{tenant}/providers/{provider} has no client_secret,
\* access_token or refresh_token field and is the same whatever these three
\* hold; GET /tenants/{tenant}/providers tells of the tokens only whether
\* there is an access token, as the boolean has_token; and neither read
\* changes the record in the Credential Store
C39_Step ==
    /\ Answered("get") =>
          LET t == reply'["get"].tenant_id
              answer == reply'["get"].answer
          IN
          /\ providers' = providers
          /\ answer.status \in {200, 404}
          /\ providers[t] = NoProvider => answer.status = 404
          /\ answer.status = 200 =>
                /\ providers[t] # NoProvider
                /\ DOMAIN answer.data.config \cap SecretFields = {}
                /\ DOMAIN answer.data.config = DOMAIN providers[t] \ SecretFields
                /\ \A r \in SecretVariants(providers[t]) :
                      provider_config(r) = answer.data.config
    /\ Answered("list") =>
          LET t == reply'["list"].tenant_id
              answer == reply'["list"].answer
          IN
          /\ providers' = providers
          /\ answer.status = 200
          /\ Len(answer.data.providers) = IF providers[t] = NoProvider THEN 0 ELSE 1
          /\ \A i \in DOMAIN answer.data.providers :
                LET entry == answer.data.providers[i] IN
                /\ DOMAIN entry \cap SecretFields = {}
                /\ entry.has_token \in BOOLEAN
                /\ entry.has_token <=> providers[t].access_token # NoToken
                /\ \A r \in SecretVariants(providers[t]) :
                      (r.access_token # NoToken) = entry.has_token
                          => provider_summary(entry.provider, r) = entry
C39_NoSecretDisclosed == [][C39_Step]_vars
\* both routes have answered for a tenant whose record holds tokens
C39_Witness ==
    /\ reply["get"].answer.status = 200
    /\ reply["list"].answer.status = 200
    /\ reply["list"].tenant_id = reply["get"].tenant_id
    /\ Len(reply["list"].answer.data.providers) = 1
    /\ providers[reply["get"].tenant_id].access_token # NoToken
    /\ providers[reply["get"].tenant_id].refresh_token # NoToken

====
